---- MODULE Spec2Model ----
(***************************************************************************)
(* Model of CleanupBuildOrders.remove_old_items                            *)
(* (src/cleanup_build_orders/core.py): the scheduled task that removes     *)
(* consumed stock items of old, finished build orders.                     *)
(*                                                                         *)
(* The store (StockItem and Build rows, the plugin setting) is shared with *)
(* the host application.  Every store operation of the task (get_setting,  *)
(* count, the iteration's SELECT, refresh_from_db, delete) is one atomic   *)
(* step; the host and a second, overlapping run of the task interleave     *)
(* between the steps.                                                      *)
(***************************************************************************)
EXTENDS Integers, Sequences, FiniteSets, TLC

\* ---------------------------------------------------------------- bounds
MaxItems == 2
MaxHostOps == 1

\* ------------------------------------------------------ program constants
MONTHS_DEFAULT == 24
MIN_PERIOD == 6
DAYS_PER_MONTH == 30

\* --------------------------------------------------------------- domains
ItemIds == 1..MaxItems
BuildIds == {"b1"}
NullStr == "<NULL>"
NoParent == "<NULL>"
Assembly == "assembly"
NoBuild == "<NULL>"
NoDate == 0 - 1

\* build.status_codes.BuildStatus of the host, and its ACTIVE_CODES group
StatusCodes == {"PENDING", "PRODUCTION", "ON_HOLD", "CANCELLED", "COMPLETE"}
ACTIVE_CODES == {"PENDING", "PRODUCTION", "ON_HOLD"}

Sweeps == {"s1", "s2"}

Unset == [kind |-> "unset", val |-> 0]
IntVal(v) == [kind |-> "int", val |-> v]
TextVal == [kind |-> "text", val |-> 0]

\* Retention periods a user may try to configure (some invalid)
PeriodInputs == {IntVal(MIN_PERIOD - 1), IntVal(MIN_PERIOD),
                 IntVal(MIN_PERIOD + 1), TextVal}

Day0 == MONTHS_DEFAULT * DAYS_PER_MONTH + 10
Days == {Day0, Day0 + 1}
\* completion dates around the thresholds of the shortest and the default period
Periods == {MIN_PERIOD, MONTHS_DEFAULT}
CompletionDates ==
    {Day0 - (p * DAYS_PER_MONTH) + d : p \in Periods, d \in {-1, 0, 1}}

VARIABLES
    stock,           \* StockItem rows, by pk
    build,           \* Build rows, by pk
    setting,         \* the stored STOCK_DELETE_PERIOD, or Unset
    today,           \* current_date()
    nextId,          \* the pk the next new StockItem gets
    hostOps,         \* steps the host has taken
    rejected,        \* the settings validators have turned an input down
    pc,              \* where each run of the task stands
    dry_run,         \* its argument
    threshold_date,  \* its local of line 94
    N, M,            \* its counters
    snapshot,        \* the rows its loop iterates over
    cursor,          \* how many of them the loop is through
    removed,         \* the rows its deletes took out of the store
    dirty,           \* somebody else changed the store since the run began
    quiet            \* the run before was a finished live one, nothing changed since

store == <<stock, build, setting, today, nextId>>
sweepVars == <<pc, dry_run, threshold_date, N, M, snapshot, cursor, removed>>
vars == <<stock, build, setting, today, nextId, hostOps, rejected,
          pc, dry_run, threshold_date, N, M, snapshot, cursor, removed,
          dirty, quiet>>

\* how a run of the task ends: its return, an exception out of the loop, or
\* the process being stopped
Raised == {"DoesNotExist", "IntegrityError", "ValueError"}
Ended == {"done", "killed"} \cup Raised

Gone == [exists |-> FALSE, serial |-> NullStr, belongs_to |-> NoParent,
         consumed_by |-> NoBuild]
Row(s, b, c) == [exists |-> TRUE, serial |-> s, belongs_to |-> b,
                 consumed_by |-> c]
ItemRows == {Row(s, b, c) : s \in {NullStr, "", "SN123"},
                            b \in {NoParent, Assembly},
                            c \in {NoBuild} \cup BuildIds}
BuildRows == [status : StatusCodes, completion_date : CompletionDates \cup {NoDate}]

\* ------------------------------------------------- the query (lines 73-98)
\* StockItem.objects.all()
AllItems(st) == {i \in ItemIds : st[i].exists}

\* items.filter(Q(serial=None) | Q(serial="")).distinct()
FilterNoSerial(S, st) == {i \in S : st[i].serial = NullStr \/ st[i].serial = ""}

\* items.filter(belongs_to=None)
FilterNotInstalled(S, st) == {i \in S : st[i].belongs_to = NoParent}

\* items.exclude(consumed_by__isnull=True)
ExcludeNotConsumed(S, st) == S \ {i \in S : st[i].consumed_by = NoBuild}

\* items.exclude(consumed_by__status__in=BuildStatusGroups.ACTIVE_CODES)
ExcludeActive(S, st, bd) ==
    S \ {i \in S : /\ st[i].consumed_by # NoBuild
                     /\ bd[st[i].consumed_by].status \in ACTIVE_CODES}

\* items.exclude(consumed_by__completion_date__isnull=True)
ExcludeNoCompletionDate(S, st, bd) ==
    S \ {i \in S : /\ st[i].consumed_by # NoBuild
                     /\ bd[st[i].consumed_by].completion_date = NoDate}

\* (mutant) the comparison as __lte: the boundary date is kept
FilterOlderThanLte(S, st, bd, thr) ==
    {i \in S : /\ st[i].consumed_by # NoBuild
                /\ bd[st[i].consumed_by].completion_date # NoDate
                /\ bd[st[i].consumed_by].completion_date <= thr}

\* items.filter(consumed_by__completion_date__lt=threshold_date)
FilterOlderThan(S, st, bd, thr) ==
    {i \in S : /\ st[i].consumed_by # NoBuild
                /\ bd[st[i].consumed_by].completion_date # NoDate
                /\ bd[st[i].consumed_by].completion_date < thr}

\* the queryset `items` as it stands at line 98, evaluated on a store state
items(st, bd, thr) ==
    FilterOlderThan(
      ExcludeNoCompletionDate(
        ExcludeActive(
          ExcludeNotConsumed(
            FilterNotInstalled(
              FilterNoSerial(AllItems(st), st), st), st), st, bd), st, bd),
      st, bd, thr)

\* ------------------------------------------- the setting (lines 47-55, 89-94)
\* (mutant) the validators without MinValueValidator(6)
ValidPeriodIntOnly(v) == v.kind = "int"

\* validator: [int, MinValueValidator(6)]
ValidPeriod(v) == v.kind = "int" /\ v.val >= MIN_PERIOD

\* self.get_setting("STOCK_DELETE_PERIOD", backup_value=self.MONTHS_DEFAULT)
get_setting(s) == IF s = Unset THEN IntVal(MONTHS_DEFAULT) ELSE s

\* int(...): a ValueError for what is no integer
IntOk(v) == v.kind = "int"

threshold_months(s) == get_setting(s).val
threshold_days(s) == threshold_months(s) * DAYS_PER_MONTH
ThresholdDate(s, day) == day - threshold_days(s)

\* every order the iteration's SELECT (no order_by) may return the rows in
Orders(S) == {sq \in [1..Cardinality(S) -> S] :
                 \A a, b \in 1..Cardinality(S) : sq[a] = sq[b] => a = b}

\* ------------------------------------------------ remove_old_items, per step
\* the item the loop is at
Current(s) == snapshot[s][cursor[s] + 1]

\* lines 57, 89-94: the call; the setting and the clock are read
Start(s, dr) ==
    /\ pc[s] = "idle"
    /\ dry_run' = [dry_run EXCEPT ![s] = dr]
    /\ IF IntOk(get_setting(setting))
         THEN /\ threshold_date' =
                   [threshold_date EXCEPT ![s] = ThresholdDate(setting, today)]
              /\ pc' = [pc EXCEPT ![s] = "ready"]
         ELSE /\ pc' = [pc EXCEPT ![s] = "ValueError"]
              /\ UNCHANGED threshold_date
    /\ dirty' = [dirty EXCEPT ![s] = FALSE]
    /\ UNCHANGED <<store, hostOps, rejected, N, M, snapshot, cursor, removed, quiet>>

\* (mutant) the dry run does not return
CountNoDryRun(s) ==
    /\ pc[s] = "ready"
    /\ N' = [N EXCEPT ![s] = Cardinality(items(stock, build, threshold_date[s]))]
    /\ M' = [M EXCEPT ![s] = 0]
    /\ pc' = [pc EXCEPT ![s] = "counted"]
    /\ UNCHANGED <<store, hostOps, rejected, dry_run, threshold_date, snapshot,
                   cursor, removed, dirty, quiet>>

\* lines 100-107: N = items.count(), M = 0, and the dry run's return
Count(s) ==
    /\ pc[s] = "ready"
    /\ N' = [N EXCEPT ![s] = Cardinality(items(stock, build, threshold_date[s]))]
    /\ M' = [M EXCEPT ![s] = 0]
    /\ pc' = [pc EXCEPT ![s] = IF dry_run[s] THEN "done" ELSE "counted"]
    /\ UNCHANGED <<store, hostOps, rejected, dry_run, threshold_date, snapshot,
                   cursor, removed, dirty, quiet>>

\* line 114: `for item in items` runs the query again and holds its rows
Fetch(s) ==
    /\ pc[s] = "counted"
    /\ \E sq \in Orders(items(stock, build, threshold_date[s])) :
          snapshot' = [snapshot EXCEPT ![s] = sq]
    /\ pc' = [pc EXCEPT ![s] = "loop"]
    /\ UNCHANGED <<store, hostOps, rejected, dry_run, threshold_date, N, M,
                   cursor, removed, dirty, quiet>>

\* line 115: item.refresh_from_db() reloads the row's fields, whatever they
\* are now, and raises DoesNotExist for a row that is gone
Refresh(s) ==
    /\ pc[s] = "loop"
    /\ cursor[s] < Len(snapshot[s])
    /\ pc' = [pc EXCEPT ![s] =
                IF stock[Current(s)].exists THEN "refreshed" ELSE "DoesNotExist"]
    /\ UNCHANGED <<store, hostOps, rejected, dry_run, threshold_date, N, M,
                   snapshot, cursor, removed, dirty, quiet>>

\* what a delete of row i by run s does to the other runs' flags
Others(s, i, flags, v) ==
    [t \in Sweeps |-> IF t # s /\ stock[i].exists THEN v ELSE flags[t]]

\* (mutant) one bulk delete of the rows the query matches now
DeleteBulk(s) ==
    /\ pc[s] = "refreshed"
    /\ stock' = [i \in ItemIds |->
                   IF i = Current(s) \/ i \in items(stock, build, threshold_date[s])
                     THEN Gone ELSE stock[i]]
    /\ removed' = [removed EXCEPT ![s] =
                     IF stock[Current(s)].exists THEN @ \cup {Current(s)} ELSE @]
    /\ M' = [M EXCEPT ![s] = @ + 1]
    /\ cursor' = [cursor EXCEPT ![s] = @ + 1]
    /\ pc' = [pc EXCEPT ![s] = "loop"]
    /\ dirty' = Others(s, Current(s), dirty, TRUE)
    /\ quiet' = Others(s, Current(s), quiet, FALSE)
    /\ UNCHANGED <<build, setting, today, nextId, hostOps, rejected, dry_run,
                   threshold_date, N, snapshot>>

\* (mutant) the row is kept in the store (a soft delete)
DeleteSoft(s) ==
    /\ pc[s] = "refreshed"
    /\ M' = [M EXCEPT ![s] = @ + 1]
    /\ cursor' = [cursor EXCEPT ![s] = @ + 1]
    /\ pc' = [pc EXCEPT ![s] = "loop"]
    /\ UNCHANGED <<store, hostOps, rejected, dry_run, threshold_date, N,
                   snapshot, removed, dirty, quiet>>

\* (mutant) M is counted up twice for a row
DeleteCountsTwice(s) ==
    /\ pc[s] = "refreshed"
    /\ stock' = [stock EXCEPT ![Current(s)] = Gone]
    /\ removed' = [removed EXCEPT ![s] =
                     IF stock[Current(s)].exists THEN @ \cup {Current(s)} ELSE @]
    /\ M' = [M EXCEPT ![s] = @ + 2]
    /\ cursor' = [cursor EXCEPT ![s] = @ + 1]
    /\ pc' = [pc EXCEPT ![s] = "loop"]
    /\ dirty' = Others(s, Current(s), dirty, TRUE)
    /\ quiet' = Others(s, Current(s), quiet, FALSE)
    /\ UNCHANGED <<build, setting, today, nextId, hostOps, rejected, dry_run,
                   threshold_date, N, snapshot>>

\* lines 116-117: item.delete() (DELETE ... WHERE id = pk, which is no error
\* when the row is gone by now), then M += 1
Delete(s) ==
    /\ pc[s] = "refreshed"
    /\ stock' = [stock EXCEPT ![Current(s)] = Gone]
    /\ removed' = [removed EXCEPT ![s] =
                     IF stock[Current(s)].exists THEN @ \cup {Current(s)} ELSE @]
    /\ M' = [M EXCEPT ![s] = @ + 1]
    /\ cursor' = [cursor EXCEPT ![s] = @ + 1]
    /\ pc' = [pc EXCEPT ![s] = "loop"]
    /\ dirty' = Others(s, Current(s), dirty, TRUE)
    /\ quiet' = Others(s, Current(s), quiet, FALSE)
    /\ UNCHANGED <<build, setting, today, nextId, hostOps, rejected, dry_run,
                   threshold_date, N, snapshot>>

\* line 116: item.delete() raises (an integrity error of the store)
DeleteRaises(s) ==
    /\ pc[s] = "refreshed"
    /\ pc' = [pc EXCEPT ![s] = "IntegrityError"]
    /\ UNCHANGED <<store, hostOps, rejected, dry_run, threshold_date, N, M,
                   snapshot, cursor, removed, dirty, quiet>>

\* (mutant) the run's deletes are one transaction, undone when it is stopped
InterruptRollback(s) ==
    /\ pc[s] \in {"loop", "refreshed"}
    /\ pc' = [pc EXCEPT ![s] = "killed"]
    /\ stock' = [i \in ItemIds |->
                   IF i \in removed[s] THEN Row("", NoParent, "b1") ELSE stock[i]]
    /\ UNCHANGED <<build, setting, today, nextId, hostOps, rejected, dry_run,
                   threshold_date, N, M, snapshot, cursor, removed, dirty, quiet>>

\* line 113: the task is stopped in its loop (a timeout, a restart)
Interrupt(s) ==
    /\ pc[s] \in {"loop", "refreshed"}
    /\ pc' = [pc EXCEPT ![s] = "killed"]
    /\ UNCHANGED <<store, hostOps, rejected, dry_run, threshold_date, N, M,
                   snapshot, cursor, removed, dirty, quiet>>

\* line 119: the loop is over, the final log line
Finish(s) ==
    /\ pc[s] = "loop"
    /\ cursor[s] = Len(snapshot[s])
    /\ pc' = [pc EXCEPT ![s] = "done"]
    /\ UNCHANGED <<store, hostOps, rejected, dry_run, threshold_date, N, M,
                   snapshot, cursor, removed, dirty, quiet>>

\* lines 39-44: the schedule ("D") calls the task again
Restart(s) ==
    /\ pc[s] \in Ended
    /\ quiet' = [quiet EXCEPT ![s] =
                   pc[s] = "done" /\ ~dry_run[s] /\ ~dirty[s]]
    /\ pc' = [pc EXCEPT ![s] = "idle"]
    /\ dry_run' = [dry_run EXCEPT ![s] = FALSE]
    /\ threshold_date' = [threshold_date EXCEPT ![s] = 0]
    /\ N' = [N EXCEPT ![s] = 0]
    /\ M' = [M EXCEPT ![s] = 0]
    /\ snapshot' = [snapshot EXCEPT ![s] = <<>>]
    /\ cursor' = [cursor EXCEPT ![s] = 0]
    /\ removed' = [removed EXCEPT ![s] = {}]
    /\ UNCHANGED <<store, hostOps, rejected, dirty>>

\* --------------------------------------------------- the host application
HostOp ==
    /\ hostOps < MaxHostOps
    /\ hostOps' = hostOps + 1
    /\ dirty' = [s \in Sweeps |-> TRUE]
    /\ quiet' = [s \in Sweeps |-> FALSE]
    /\ UNCHANGED sweepVars

\* the settings page: the validators of SETTINGS (lines 47-55) accept or reject
SetSetting(v) ==
    /\ HostOp
    /\ setting' = IF ValidPeriod(v) THEN v ELSE setting
    /\ rejected' = (rejected \/ ~ValidPeriod(v))
    /\ UNCHANGED <<stock, build, today, nextId>>

HostSetSerial(i) ==
    /\ HostOp
    /\ stock[i].exists
    /\ stock' = [stock EXCEPT ![i].serial = "SN123"]
    /\ UNCHANGED <<build, setting, today, nextId, rejected>>

HostInstall(i) ==
    /\ HostOp
    /\ stock[i].exists
    /\ stock' = [stock EXCEPT ![i].belongs_to = Assembly]
    /\ UNCHANGED <<build, setting, today, nextId, rejected>>

HostReopenBuild(b) ==
    /\ HostOp
    /\ build' = [build EXCEPT ![b].status = "PRODUCTION"]
    /\ UNCHANGED <<stock, setting, today, nextId, rejected>>

HostDeleteItem(i) ==
    /\ HostOp
    /\ stock[i].exists
    /\ stock' = [stock EXCEPT ![i] = Gone]
    /\ UNCHANGED <<build, setting, today, nextId, rejected>>

\* a build consumes a new, untracked stock item
HostCreateItem(b) ==
    /\ HostOp
    /\ nextId <= MaxItems
    /\ stock' = [stock EXCEPT ![nextId] = Row("", NoParent, b)]
    /\ nextId' = nextId + 1
    /\ UNCHANGED <<build, setting, today, rejected>>

\* current_date() moves on
Tick ==
    /\ HostOp
    /\ today' = today + 1
    /\ UNCHANGED <<stock, build, setting, nextId, rejected>>

\* ------------------------------------------------------------ specifications
InitSweeps ==
    /\ pc = [s \in Sweeps |-> "idle"]
    /\ dry_run = [s \in Sweeps |-> FALSE]
    /\ threshold_date = [s \in Sweeps |-> 0]
    /\ N = [s \in Sweeps |-> 0]
    /\ M = [s \in Sweeps |-> 0]
    /\ snapshot = [s \in Sweeps |-> <<>>]
    /\ cursor = [s \in Sweeps |-> 0]
    /\ removed = [s \in Sweeps |-> {}]
    /\ dirty = [s \in Sweeps |-> FALSE]
    /\ quiet = [s \in Sweeps |-> FALSE]
    /\ hostOps = 0
    /\ rejected = FALSE

OldDate == Day0 - (MONTHS_DEFAULT * DAYS_PER_MONTH) - 1

\* Stores of the initial states: untracked, serialised, installed and unconsumed
\* items, one build that is finished (before or on the default threshold
\* date) or still in production.
InitRows == {Row("", NoParent, "b1"), Row(NullStr, NoParent, "b1"),
             Row("SN123", NoParent, "b1"), Row("", Assembly, "b1"),
             Row("", NoParent, NoBuild)}
InitBuilds == [status : {"COMPLETE", "PRODUCTION"},
               completion_date : {OldDate, OldDate + 1, NoDate}]

Init ==
    /\ InitSweeps
    /\ \E k \in 1..MaxItems :
          /\ nextId = k + 1
          /\ stock \in [ItemIds -> InitRows \cup {Gone}]
          /\ \A i \in ItemIds : stock[i].exists <=> i <= k
    /\ build \in [BuildIds -> InitBuilds]
    /\ setting = Unset
    /\ today = Day0

SweepStep(s) ==
    \/ \E dr \in BOOLEAN : Start(s, dr)
    \/ Count(s)
    \/ Fetch(s)
    \/ Refresh(s)
    \/ Delete(s)
    \/ DeleteRaises(s)
    \/ Interrupt(s)
    \/ Finish(s)

HostStep ==
    \/ \E v \in PeriodInputs : SetSetting(v)
    \/ \E i \in ItemIds : HostSetSerial(i)
    \/ \E i \in ItemIds : HostInstall(i)
    \/ \E b \in BuildIds : HostReopenBuild(b)
    \/ \E i \in ItemIds : HostDeleteItem(i)
    \/ \E b \in BuildIds : HostCreateItem(b)
    \/ Tick

\* The scheduled task, run after run, beside the host application.
Next ==
    \/ SweepStep("s1")
    \/ Restart("s1")
    \/ HostStep

Spec == Init /\ [][Next]_vars

\* A store of untracked and serialised items of one old, finished build.
InitOld ==
    /\ InitSweeps
    /\ \E k \in {MaxItems - 1, MaxItems} :
          /\ nextId = k + 1
          /\ stock \in [ItemIds -> {Row("", NoParent, "b1"),
                                    Row("SN123", NoParent, "b1"), Gone}]
          /\ \A i \in ItemIds : stock[i].exists <=> i <= k
    /\ build = [b \in BuildIds |-> [status |-> "COMPLETE", completion_date |-> OldDate]]
    /\ setting = Unset
    /\ today = Day0

\* The schedule fires twice: two runs of the task overlap. The host is quiet.
NextOverlap == \E s \in Sweeps : SweepStep(s)

SpecOverlap == InitOld /\ [][NextOverlap]_vars

\* The scheduled task, run after run: the schedule calls it live again and
\* again, a run that is not stopped goes on, and neither the stopping nor the
\* failing of a delete lasts for ever.
Fairness ==
    /\ SF_vars(Start("s1", FALSE))
    /\ WF_vars(Count("s1"))
    /\ WF_vars(Fetch("s1"))
    /\ SF_vars(Refresh("s1"))
    /\ SF_vars(Delete("s1"))
    /\ SF_vars(Finish("s1"))
    /\ WF_vars(Restart("s1"))

FairSpec == InitOld /\ [][Next]_vars /\ Fairness

\* Any store content, any date, any valid setting: one call of the task up to
\* the rows its loop holds.
InitElig ==
    /\ InitSweeps
    /\ stock \in [ItemIds -> ItemRows \cup {Gone}]
    /\ build \in [BuildIds -> BuildRows]
    /\ setting \in {Unset, IntVal(MIN_PERIOD)}
    /\ today \in Days
    /\ nextId = MaxItems + 1

NextElig ==
    \/ \E dr \in BOOLEAN : Start("s1", dr)
    \/ Count("s1")
    \/ Fetch("s1")

SpecElig == InitElig /\ [][NextElig]_vars

\* ==================================================================== claims
Range(sq) == {sq[k] : k \in 1..Len(sq)}

\* The retention period in force: the configured one, else the default.
PeriodInForce == IF setting = Unset THEN MONTHS_DEFAULT ELSE setting.val

\* The rows the task's query matches now, under the setting and date of now.
EligibleNow == items(stock, build, ThresholdDate(setting, today))

\* The six conditions of eligibility, on the store as it is, for a threshold date.
SixConditions(i, thr) ==
    /\ stock[i].serial = NullStr \/ stock[i].serial = ""
    /\ stock[i].belongs_to = NoParent
    /\ stock[i].consumed_by # NoBuild
    /\ build[stock[i].consumed_by].status \notin ACTIVE_CODES
    /\ build[stock[i].consumed_by].completion_date # NoDate
    /\ build[stock[i].consumed_by].completion_date < thr

\* C1: for every stock item, date and retention period, the item is among the
\* rows the task counts and iterates over iff the six conditions hold (serial
\* null or empty, not installed, consumed by a build, the build not active, its
\* completion date set and strictly before today - period * 30 days); no row
\* comes twice.
C1_EligibleIffSixConditions ==
    LET thr == today - (PeriodInForce * DAYS_PER_MONTH)
        elig == {i \in ItemIds : stock[i].exists /\ SixConditions(i, thr)}
    IN /\ pc["s1"] \in {"counted", "done", "loop"} => N["s1"] = Cardinality(elig)
       /\ pc["s1"] = "loop" =>
            /\ Range(snapshot["s1"]) = elig
            /\ Len(snapshot["s1"]) = Cardinality(elig)

\* C1 witness: the rows are fetched under a configured period of 6 months;
\* item 1, whose build was completed on the last day before the threshold
\* date, is the one row, and item 2 of the same build, which has a serial, is
\* left out.
C1_Witness ==
    /\ pc["s1"] = "loop"
    /\ setting = IntVal(MIN_PERIOD)
    /\ snapshot["s1"] = <<1>>
    /\ N["s1"] = 1
    /\ build["b1"].completion_date = today - (MIN_PERIOD * DAYS_PER_MONTH) - 1
    /\ stock[2].exists /\ stock[2].serial = "SN123"
    /\ stock[2].belongs_to = NoParent /\ stock[2].consumed_by = "b1"

\* A step of the task's run (every step of a run moves its pc; the host's do not).
TaskStep == pc'["s1"] # pc["s1"]

\* C2: a dry run deletes nothing: no step of it changes a StockItem or a Build
\* row, it ends right after the count, and its deleted count is 0.
C2_DryRunDeletesNothing ==
    /\ [][(TaskStep /\ dry_run'["s1"]) => (stock' = stock /\ build' = build)]_vars
    /\ [](dry_run["s1"] =>
            /\ pc["s1"] \in {"ready", "done", "ValueError"}
            /\ M["s1"] = 0
            /\ removed["s1"] = {})

\* C2 witness: a dry run has returned having counted an eligible item, which
\* is still in the store.
C2_Witness ==
    /\ pc["s1"] = "done" /\ dry_run["s1"] /\ N["s1"] >= 1
    /\ \E i \in ItemIds : stock[i].exists /\ SixConditions(i, threshold_date["s1"])

C5_RecordErrorDoesNotEndTheRun ==
    \A s \in Sweeps : pc[s] \notin {"DoesNotExist", "IntegrityError"}

C8_SecondRunFindsNothing ==
    quiet["s1"] =>
       /\ EligibleNow = {}
       /\ N["s1"] = 0 /\ M["s1"] = 0
       /\ Len(snapshot["s1"]) = 0 /\ removed["s1"] = {}

\* C8 witness: the second of two live runs has ended, nothing else having
\* happened, and a row the first one deleted is gone.
C8_Witness ==
    /\ quiet["s1"] /\ pc["s1"] = "done" /\ ~dry_run["s1"]
    /\ hostOps = 0
    /\ \E i \in ItemIds : i < nextId /\ ~stock[i].exists

\* C9 (as claimed): a row the run deletes meets the six conditions at the
\* moment of its delete.
C9_DeletedRowIsEligible ==
    [][\A i \in ItemIds :
         (TaskStep /\ stock[i].exists /\ ~stock'[i].exists) =>
            SixConditions(i, threshold_date["s1"])]_vars

\* C10 (as claimed): M never exceeds N.
C10_MAtMostN == \A s \in Sweeps : M[s] <= N[s]

\* C10 (amended): M never exceeds the number of rows the loop's own query
\* returned; that number is N, and so M <= N, in a run during which nobody else
\* changes the store.
C10_MAtMostRowsFetched ==
    /\ 0 <= M["s1"] /\ M["s1"] <= Len(snapshot["s1"])
    /\ (~dirty["s1"] /\ ~dry_run["s1"] /\ pc["s1"] \in {"loop", "refreshed", "done"}) =>
          Len(snapshot["s1"]) = N["s1"]
    /\ ~dirty["s1"] => M["s1"] <= N["s1"]

\* C10 witness: a live run has ended with more rows deleted than it counted:
\* a row became eligible between its count and its loop's query.
C10_Witness ==
    /\ pc["s1"] = "done" /\ ~dry_run["s1"]
    /\ M["s1"] = Len(snapshot["s1"]) /\ M["s1"] > N["s1"]

\* A run ends without having reached its end: it is stopped, or an exception
\* leaves the loop.
Broken == {"killed", "DoesNotExist", "IntegrityError"}

C6_OverlappingRunsBothFinish ==
    /\ \A s \in Sweeps : pc[s] # "DoesNotExist"
    /\ (\A s \in Sweeps : pc[s] = "done" /\ ~dry_run[s]) =>
          /\ \A s \in Sweeps : \A i \in Range(snapshot[s]) : ~stock[i].exists
          /\ removed["s1"] \cap removed["s2"] = {}

====
